---- MODULE Spec2Model ----
(***************************************************************************)
(* The terminal banner utility: four variants of one program.              *)
(*   part_000   shell variant, "fixed to handle NaN" (src/unnamed/part_000)*)
(*   part_001   shell variant                        (src/unnamed/part_001)*)
(*   run_first  launcher, lines 1-120 of src/run.js                        *)
(*   run_second launcher, lines 122-339 of src/run.js                      *)
(* Each prints a banner of host metrics and then spawns a child process.   *)
(***************************************************************************)
EXTENDS Integers, Sequences, FiniteSets, TLC

Variants == {"part_000", "part_001", "run_first", "run_second"}
Shells == {"part_000", "part_001"}
Launchers == {"run_first", "run_second"}

-----------------------------------------------------------------------------
(* Bounds of the model.                                                    *)

\* Uptimes are sampled up to this many whole days.
MaxDays == 2
\* Byte counts are sampled up to 1024^MaxExp times a mantissa.
MaxExp == 5
\* os.uptime() is a fractional number of seconds: the model counts it in
\* units of 1/Den second.
Den == 2

-----------------------------------------------------------------------------
(* JavaScript values that reach formatBytes.  A positive number is         *)
(* m * 1024^e (a mantissa and an exponent, so that 1024^5 stays within the *)
(* checker's integers); 0, NaN and undefined are values of their own.      *)

k == 1024

Num(m, e) == [t |-> "num", m |-> m, e |-> e]
Zero == [t |-> "num", m |-> 0, e |-> 0]
NaN == [t |-> "NaN", m |-> 0, e |-> 0]
Undefined == [t |-> "undefined", m |-> 0, e |-> 0]

\* isNaN(x): x coerces to NaN (undefined does).
isNaN(x) == x.t \in {"NaN", "undefined"}

RECURSIVE Pow(_, _)
Pow(b, n) == IF n = 0 THEN 1 ELSE b * Pow(b, n - 1)

\* Math.floor(Math.log(m) / Math.log(k)) for an integer m >= 1, in exact
\* arithmetic.
RECURSIVE FloorLog(_)
FloorLog(m) == IF m < k THEN 0 ELSE 1 + FloorLog(m \div k)

sizes == <<"B", "K", "M", "G", "T">>

\* What formatBytes returns: the string <tenths/10><unit>, or the number NaN
\* (a number plus undefined is NaN, printed "NaN").
Size(tenths, unit) == [kind |-> "size", tenths |-> tenths, unit |-> unit]
NaNResult == [kind |-> "NaN", tenths |-> 0, unit |-> ""]
NAResult == [kind |-> "N/A", tenths |-> 0, unit |-> ""]

\* The guard of formatBytes: part_001 tests bytes === 0 only, the others
\* bytes === 0 || isNaN(bytes).
formatBytesIsZero(v, bytes) ==
    \/ bytes.t = "num" /\ bytes.m = 0
    \/ v # "part_001" /\ isNaN(bytes)

\* sizes[i] of a JavaScript array: undefined past the end.
formatBytesUnit(i) == IF i + 1 <= Len(sizes) THEN sizes[i + 1] ELSE "undefined"

formatBytes(v, bytes) ==
    IF formatBytesIsZero(v, bytes) THEN Size(0, "B")
    ELSE IF bytes.t # "num" THEN NaNResult  \* Math.log(NaN) is NaN, sizes[NaN] undefined
    ELSE LET j == FloorLog(bytes.m)
             i == j + bytes.e               \* floor(log(bytes) / log(k))
             \* (bytes / k^i).toFixed(1): m / k^j rounded half up to tenths
             tenths == (20 * bytes.m + Pow(k, j)) \div (2 * Pow(k, j))
             unit == formatBytesUnit(i)
         IN  IF unit = "undefined" THEN NaNResult ELSE Size(tenths, unit)

-----------------------------------------------------------------------------
(* formatUptime.  seconds is n / Den.  The output is the list of parts that *)
(* join(' ') glues together; '0 minutes' is the one-part list below.       *)

\* Mutant: the unit always takes its 's'.
PartAlwaysPlural(n, unit) == [n |-> n, unit |-> unit, plural |-> TRUE]
Part(n, unit) == [n |-> n, unit |-> unit, plural |-> n > 1]
ZeroMinutes == <<[n |-> 0, unit |-> "minute", plural |-> TRUE]>>

\* seconds = Math.floor(seconds): part_001 leaves the fraction in.
formatUptimeFloor(v, n) == IF v = "part_001" THEN n ELSE (n \div Den) * Den

formatUptimeDays(s) == s \div (86400 * Den)
\* Mutant: the hours without the remainder of the day.
formatUptimeHoursOfTotal(s) == s \div (3600 * Den)
formatUptimeHours(s) == (s % (86400 * Den)) \div (3600 * Den)
formatUptimeMinutes(s) == (s % (3600 * Den)) \div (60 * Den)

formatUptime(v, n) ==
    LET s == formatUptimeFloor(v, n)
        days == formatUptimeDays(s)
        hours == formatUptimeHours(s)
        minutes == formatUptimeMinutes(s)
        result == (IF days > 0 THEN <<Part(days, "day")>> ELSE <<>>)
                  \o (IF hours > 0 THEN <<Part(hours, "hour")>> ELSE <<>>)
                  \o (IF minutes > 0 THEN <<Part(minutes, "minute")>> ELSE <<>>)
    IN  IF result = <<>> THEN ZeroMinutes ELSE result

-----------------------------------------------------------------------------
(* The host: what the os module and the container filesystem report.       *)

\* os.cpus() (the models of the CPUs; empty where the host hides them) and
\* os.loadavg()[0] in hundredths.
Hosts == [cpus : {<<>>, <<"EPYC", "EPYC">>}, loadavg : {150}]

\* os.totalmem() and os.freemem(), in MiB mantissas.
totalmem == Num(8192, 2)
freemem == Num(3072, 2)

\* /home/container: package.json (absent, with scripts.start, without it, or
\* not parseable into an object), node_modules, and the directory listing in
\* readdirSync order.
Packages == {"absent", "start", "nostart", "invalid"}
File(name, ext) == [name |-> name, ext |-> ext]
Listings == {<<>>, <<File("readme", "md")>>, <<File("bot", "js"), File("app", "js")>>,
             <<File("readme", "md"), File("index", "js")>>,
             <<File("data", "json"), File("main", "js"), File("index", "js")>>}
FileSystems == [package : Packages, node_modules : BOOLEAN, files : Listings]

\* os.uptime() of the run, in 1/Den seconds: a little over 1 day 2 h 1 min 1 s.
Uptimes == {(86400 + 7200 + 60 + 1) * Den + 1}

-----------------------------------------------------------------------------
(* What the shell commands can print.  [ok |-> FALSE] is a command that     *)
(* fails (non-zero exit, timeout, missing binary): execPromise rejects.    *)

Json(valid, null, ip, country, region, org) ==
    [valid |-> valid, null |-> null, ip |-> ip, country_name |-> country,
     region |-> region, org |-> org]
CurlOutputs ==
    { [ok |-> FALSE, json |-> Json(FALSE, FALSE, "", "", "", "")],
      [ok |-> TRUE, json |-> Json(FALSE, FALSE, "", "", "", "")],     \* not JSON
      [ok |-> TRUE, json |-> Json(TRUE, TRUE, "", "", "", "")],       \* "null"
      [ok |-> TRUE, json |-> Json(TRUE, FALSE, "203.0.113.7", "", "", "")],
      [ok |-> TRUE, json |-> Json(TRUE, FALSE, "203.0.113.7", "Indonesia",
                                  "Jakarta", "AS64500 ExampleNet")] }

\* parseFloat(stdout.trim()) of a CPU command: NaN or a number of hundredths.
Float(h) == [nan |-> FALSE, h |-> h]
FloatNaN == [nan |-> TRUE, h |-> 0]
CpuOutputs ==
    { [ok |-> FALSE, val |-> FloatNaN], [ok |-> TRUE, val |-> FloatNaN] }
    \cup { [ok |-> TRUE, val |-> Float(h)] : h \in {-500, 4237, 10000, 15000} }

\* stdout.trim().split(' ') of free and df: the fields, each a number, the
\* empty string or some other text.  Empty output splits into <<''>>.
NumTok(m, e) == [t |-> "num", m |-> m, e |-> e]
EmptyTok == [t |-> "empty", m |-> 0, e |-> 0]
TextTok == [t |-> "text", m |-> 0, e |-> 0]
FreeOutputs ==
    { [ok |-> FALSE, parts |-> <<EmptyTok>>],
      [ok |-> TRUE, parts |-> <<EmptyTok>>],
      [ok |-> TRUE, parts |-> <<NumTok(2, 3)>>],
      [ok |-> TRUE, parts |-> <<NumTok(0, 0), NumTok(0, 0)>>],
      [ok |-> TRUE, parts |-> <<NumTok(2, 3), NumTok(512, 2)>>],
      [ok |-> TRUE, parts |-> <<TextTok, TextTok>>] }
DfOutputs ==
    { [ok |-> FALSE, parts |-> <<EmptyTok>>],
      [ok |-> TRUE, parts |-> <<EmptyTok>>],
      [ok |-> TRUE, parts |-> <<NumTok(50, 3), NumTok(20, 3)>>] }

\* stdout.trim() of the /proc/cpuinfo pipeline and of uname -r.
CpuinfoOutputs ==
    { [ok |-> FALSE, text |-> ""], [ok |-> TRUE, text |-> ""],
      [ok |-> TRUE, text |-> "Xeon"] }
UnameOutputs == { [ok |-> FALSE, text |-> ""], [ok |-> TRUE, text |-> "6.1.0"] }

-----------------------------------------------------------------------------
(* The metric routines, as functions of the variant, the command's outcome *)
(* and the host.                                                           *)

\* a || b on strings: the empty string is falsy.
OrElse(a, b) == IF a = "" THEN b ELSE a

\* Mutant: no catch, the body's exception rejects the promise.
TryNoCatch(threw, value, fallback) == [rejected |-> threw, value |-> value]

\* try { ... return value } catch { return fallback }: the routine's promise
\* never rejects; it resolves to the fallback when the body threw.
TryCatch(threw, value, fallback) ==
    [rejected |-> FALSE, value |-> IF threw THEN fallback ELSE value]

IPInfo(ip, country, region, isp) ==
    [ip |-> ip, country |-> country, region |-> region, isp |-> isp]
IPInfoFallback == IPInfo("N/A", "N/A", "N/A", "N/A")

\* The body throws when curl fails, when JSON.parse throws, and when the
\* parsed value is null (data.ip of null).
getPublicIPInfo(v, o) ==
    TryCatch(~o.ok \/ ~o.json.valid \/ o.json.null,
             IPInfo(OrElse(o.json.ip, "N/A"), OrElse(o.json.country_name, "N/A"),
                    OrElse(o.json.region, "N/A"), OrElse(o.json.org, "N/A")),
             IPInfoFallback)

\* What getCPUUsage returns: a string of one decimal, 'N/A', 'NaN' or
\* 'Infinity'.
Usage(tenths) == [kind |-> "num", tenths |-> tenths]
UsageNA == [kind |-> "N/A", tenths |-> 0]
UsageNaN == [kind |-> "NaN", tenths |-> 0]
UsageInfinity == [kind |-> "Infinity", tenths |-> 0]

\* x.toFixed(1) of a number of hundredths, in tenths.
toFixed1(h) == IF h >= 0 THEN (h + 5) \div 10 ELSE -((5 - h) \div 10)
FloatToFixed(val) == IF val.nan THEN UsageNaN ELSE Usage(toFixed1(val.h))

\* (os.loadavg()[0] / os.cpus().length * 100).toFixed(1)
loadFallback(host) ==
    IF Len(host.cpus) = 0
    THEN (IF host.loadavg = 0 THEN UsageNaN ELSE UsageInfinity)
    ELSE Usage(toFixed1((host.loadavg * 100) \div Len(host.cpus)))

\* part_000, after vmstat: is the usage rejected (and top tried)?
vmstatInvalid(o) == o.val.nan \/ o.val.h < 0 \/ o.val.h > 10000

\* part_000, the top fallback inside the same try.
getCPUUsageTop(o) ==
    TryCatch(~o.ok,
             IF o.val.nan \/ o.val.h < 0 THEN UsageNA ELSE FloatToFixed(o.val),
             UsageNA)

\* getCPUUsage on the outcome of its first command (vmstat in part_000, where
\* an invalid reading goes to getCPUUsageTop instead; top in the others).
getCPUUsage(v, o, host) ==
    CASE v \in Shells -> TryCatch(~o.ok, FloatToFixed(o.val), UsageNA)
      [] v = "run_first" ->
            TryCatch(~o.ok,
                     IF ~o.val.nan THEN FloatToFixed(o.val) ELSE loadFallback(host),
                     loadFallback(host))
      [] v = "run_second" ->
            TryCatch(~o.ok,
                     IF ~o.val.nan /\ o.val.h >= 0 /\ o.val.h <= 10000
                     THEN FloatToFixed(o.val) ELSE loadFallback(host),
                     loadFallback(host))

used(total, free) == Num(total.m - free.m, total.e)
getMemoryInfo(v) ==
    [total |-> formatBytes(v, totalmem), used |-> formatBytes(v, used(totalmem, freemem)),
     free |-> formatBytes(v, freemem)]

\* Number(field)
Number(tok) ==
    CASE tok.t = "num" -> Num(tok.m, tok.e)
      [] tok.t = "empty" -> Zero
      [] OTHER -> NaN
\* parts[i] of a JavaScript array (0-based): undefined past the end.
Elem(parts, i) == IF i + 1 <= Len(parts) THEN Number(parts[i + 1]) ELSE Undefined
\* x || 0
OrZero(x) == IF isNaN(x) THEN Zero ELSE x

Pair(total, usedB) == [total |-> total, used |-> usedB]
ZeroPair == Pair(Size(0, "B"), Size(0, "B"))
NAPair == Pair(NAResult, NAResult)

getSwapInfo(v, o) ==
    CASE v = "part_000" ->
            TryCatch(~o.ok,
                     IF Len(o.parts) < 2 THEN ZeroPair
                     ELSE Pair(formatBytes(v, Elem(o.parts, 0)),
                               formatBytes(v, Elem(o.parts, 1))),
                     ZeroPair)
      [] v = "part_001" ->
            TryCatch(~o.ok,
                     Pair(formatBytes(v, Elem(o.parts, 0)), formatBytes(v, Elem(o.parts, 1))),
                     NAPair)
      [] OTHER ->
            TryCatch(~o.ok,
                     Pair(formatBytes(v, OrZero(Elem(o.parts, 0))),
                          formatBytes(v, OrZero(Elem(o.parts, 1)))),
                     ZeroPair)

getDiskInfo(v, o) ==
    TryCatch(~o.ok,
             Pair(formatBytes(v, Elem(o.parts, 0)), formatBytes(v, Elem(o.parts, 1))),
             NAPair)

\* os.cpus()[0]?.model || 'N/A'
osCpuModel(host) == IF Len(host.cpus) = 0 THEN "N/A" ELSE OrElse(host.cpus[1], "N/A")

getCPUModel(v, o, host) ==
    TryCatch(~o.ok, OrElse(o.text, osCpuModel(host)), osCpuModel(host))

getKernelVersion(v, o) == TryCatch(~o.ok, o.text, "N/A")

-----------------------------------------------------------------------------
(* The program's state.                                                    *)

VARIABLES
    variant,    \* which of the four programs runs
    host,       \* what os.cpus() and os.loadavg() report
    uptime,     \* os.uptime(), in 1/Den seconds
    fs,         \* /home/container
    pc,         \* where main is
    todo,       \* displaySystemInfo: the routines still to be called
    awaiting,   \* displaySystemInfo: the routines whose promises it awaits
    inflight,   \* the shell commands running
    settled,    \* the routines whose promise has resolved
    rejected,   \* the routines whose promise has rejected
    results,    \* what the routines resolved to
    execCount,  \* how many times each command has been started
    failed,     \* the commands an execution of which has failed
    out,        \* what has been printed, in order
    spawned,    \* the child processes spawned with spawn(), in order
    fmt         \* a direct call of formatBytes or formatUptime

vars == <<variant, host, uptime, fs, pc, todo, awaiting, inflight, settled,
          rejected, results, execCount, failed, out, spawned, fmt>>

Metrics == {"ip", "cpu", "memory", "swap", "disk", "model", "kernel"}
Commands == {"curl", "vmstat", "top", "free", "df", "cpuinfo", "uname", "npm install"}

\* The order in which displaySystemInfo calls the routines.
CallOrder(v) ==
    IF v = "run_first" THEN <<"cpu", "memory">>
    ELSE <<"ip", "cpu", "memory", "swap", "disk", "model", "kernel">>

\* The command a routine runs first.
Cmd(v, m) ==
    CASE m = "ip" -> "curl"
      [] m = "cpu" -> (IF v = "part_000" THEN "vmstat" ELSE "top")
      [] m = "swap" -> "free"
      [] m = "disk" -> "df"
      [] m = "model" -> "cpuinfo"
      [] m = "kernel" -> "uname"

UnsetSize == [kind |-> "unset", tenths |-> 0, unit |-> ""]
Unset ==
    [ip |-> IPInfo("unset", "unset", "unset", "unset"),
     cpu |-> [kind |-> "unset", tenths |-> 0],
     memory |-> [total |-> UnsetSize, used |-> UnsetSize, free |-> UnsetSize],
     swap |-> Pair(UnsetSize, UnsetSize),
     disk |-> Pair(UnsetSize, UnsetSize),
     model |-> "unset",
     kernel |-> "unset"]

FmtIdle == [fn |-> "none", bytes |-> Zero, secs |-> 0, called |-> FALSE,
            size |-> UnsetSize, parts |-> <<>>,
            free |-> [ok |-> FALSE, parts |-> <<EmptyTok>>],
            swap |-> Pair(UnsetSize, UnsetSize)]

\* The filesystems that differ in what the variant reads: the shell variants
\* read no file, the second launcher only tests node_modules.
FileSystemsOf(v) ==
    CASE v \in Shells -> {[package |-> "absent", node_modules |-> FALSE, files |-> <<>>]}
      [] v = "run_second" ->
            {f \in FileSystems : f.files = <<>> /\ f.package \in {"absent", "start"}}
      [] OTHER -> FileSystems

Init ==
    /\ variant \in Variants
    /\ host \in Hosts
    /\ uptime \in Uptimes
    /\ fs \in FileSystemsOf(variant)
    /\ pc = "init"
    /\ todo = <<>>
    /\ awaiting = {}
    /\ inflight = {}
    /\ settled = {}
    /\ rejected = {}
    /\ results = Unset
    /\ execCount = [c \in Commands |-> 0]
    /\ failed = {}
    /\ out = <<>>
    /\ spawned = <<>>
    /\ fmt = FmtIdle

-----------------------------------------------------------------------------
(* Printing.                                                               *)

Row(label, value) == [label |-> label, value |-> value]
Log(msg) == [label |-> "log", value |-> msg]

\* console.clear() (not in part_001) and the boxed title.
Header(v) ==
    (IF v = "part_001" THEN <<>> ELSE <<Row("clear", "")>>) \o <<Row("header", "")>>

\* The metric rows, in the order displaySystemInfo prints them.
Rows(v, r, h, up) ==
    IF v = "run_first"
    THEN << Row("NodeJS version", "node"),
            Row("Memory", Pair(r.memory.total, r.memory.used)),
            Row("CPU Usage", r.cpu),
            Row("Uptime", up) >>
    ELSE << Row("ISP", r.ip.isp),
            Row("IPv4", r.ip.ip),
            Row("Country", r.ip.country),
            Row("Region", r.ip.region),
            Row("OS", "Linux"),
            Row("Uptime", up),
            Row("NodeJS version", "node"),
            Row("Memory", Pair(r.memory.total, r.memory.used)),
            Row("Swap", r.swap),
            Row("Disk", r.disk),
            Row("CPUs", Len(h.cpus)),
            Row("Processor", r.model),
            Row("Arch", "x64"),
            Row("Kernel", r.kernel),
            Row("CPU Usage", r.cpu),
            Row("Current Time", "now") >>

Footer == <<Row("footer", "System Ready")>>

-----------------------------------------------------------------------------
(* Running shell commands.                                                 *)

\* execPromise(cmd) for every cmd of cmds.
Exec(cmds) ==
    /\ inflight' = inflight \cup cmds
    /\ execCount' = [c \in Commands |->
                        IF c \in cmds THEN execCount[c] + 1 ELSE execCount[c]]

\* The command cmd ends, with or without failure.
Ended(cmd, ok) ==
    /\ cmd \in inflight
    /\ failed' = IF ok THEN failed ELSE failed \cup {cmd}

\* The promise of routine m settles with r.
Settle(m, r, newResults) ==
    /\ results' = IF r.rejected THEN results ELSE newResults
    /\ settled' = IF r.rejected THEN settled ELSE settled \cup {m}
    /\ rejected' = IF r.rejected THEN rejected \cup {m} ELSE rejected

\* Mutant: Promise.race in place of Promise.all.
AwaitRace(aw, done) == aw \cap done # {}

\* An await of displaySystemInfo may go on: every awaited promise resolved
\* (await of one promise, or of Promise.all of seven).
AwaitReady(aw, done) == aw \subseteq done

-----------------------------------------------------------------------------
(* main and displaySystemInfo.                                             *)

\* main starts: displaySystemInfo prints the title and calls its first
\* routine; the second launcher calls all seven inside Promise.all.
mainStart ==
    /\ pc = "init"
    /\ pc' = "metrics"
    /\ out' = Header(variant)
    /\ IF variant = "run_second"
       THEN /\ todo' = <<>>
            /\ awaiting' = Metrics
            /\ results' = [results EXCEPT !.memory = getMemoryInfo(variant)]
            /\ settled' = {"memory"}
            /\ Exec({Cmd(variant, m) : m \in Metrics \ {"memory"}})
       ELSE /\ todo' = Tail(CallOrder(variant))
            /\ awaiting' = {Head(CallOrder(variant))}
            /\ Exec({Cmd(variant, Head(CallOrder(variant)))})
            /\ UNCHANGED <<results, settled>>
    /\ UNCHANGED <<variant, host, uptime, fs, rejected, failed, spawned, fmt>>

curlDone ==
    \E o \in CurlOutputs :
        /\ Ended("curl", o.ok)
        /\ inflight' = inflight \ {"curl"}
        /\ LET r == getPublicIPInfo(variant, o)
           IN  Settle("ip", r, [results EXCEPT !.ip = r.value])
        /\ UNCHANGED <<variant, host, uptime, fs, pc, todo, awaiting, execCount,
                       out, spawned, fmt>>

\* part_000 only: a rejected reading starts top inside the same try.
vmstatDone ==
    \E o \in CpuOutputs :
        /\ Ended("vmstat", o.ok)
        /\ IF o.ok /\ vmstatInvalid(o)
           THEN /\ inflight' = (inflight \ {"vmstat"}) \cup {"top"}
                /\ execCount' = [execCount EXCEPT !["top"] = @ + 1]
                /\ UNCHANGED <<results, settled, rejected>>
           ELSE /\ inflight' = inflight \ {"vmstat"}
                /\ LET r == getCPUUsage(variant, o, host)
                   IN  Settle("cpu", r, [results EXCEPT !.cpu = r.value])
                /\ UNCHANGED execCount
        /\ UNCHANGED <<variant, host, uptime, fs, pc, todo, awaiting, out, spawned, fmt>>

topDone ==
    \E o \in CpuOutputs :
        /\ Ended("top", o.ok)
        /\ inflight' = inflight \ {"top"}
        /\ LET r == IF variant = "part_000" THEN getCPUUsageTop(o)
                    ELSE getCPUUsage(variant, o, host)
           IN  Settle("cpu", r, [results EXCEPT !.cpu = r.value])
        /\ UNCHANGED <<variant, host, uptime, fs, pc, todo, awaiting, execCount,
                       out, spawned, fmt>>

freeDone ==
    \E o \in FreeOutputs :
        /\ Ended("free", o.ok)
        /\ inflight' = inflight \ {"free"}
        /\ LET r == getSwapInfo(variant, o)
           IN  Settle("swap", r, [results EXCEPT !.swap = r.value])
        /\ UNCHANGED <<variant, host, uptime, fs, pc, todo, awaiting, execCount,
                       out, spawned, fmt>>

dfDone ==
    \E o \in DfOutputs :
        /\ Ended("df", o.ok)
        /\ inflight' = inflight \ {"df"}
        /\ LET r == getDiskInfo(variant, o)
           IN  Settle("disk", r, [results EXCEPT !.disk = r.value])
        /\ UNCHANGED <<variant, host, uptime, fs, pc, todo, awaiting, execCount,
                       out, spawned, fmt>>

cpuinfoDone ==
    \E o \in CpuinfoOutputs :
        /\ Ended("cpuinfo", o.ok)
        /\ inflight' = inflight \ {"cpuinfo"}
        /\ LET r == getCPUModel(variant, o, host)
           IN  Settle("model", r, [results EXCEPT !.model = r.value])
        /\ UNCHANGED <<variant, host, uptime, fs, pc, todo, awaiting, execCount,
                       out, spawned, fmt>>

unameDone ==
    \E o \in UnameOutputs :
        /\ Ended("uname", o.ok)
        /\ inflight' = inflight \ {"uname"}
        /\ LET r == getKernelVersion(variant, o)
           IN  Settle("kernel", r, [results EXCEPT !.kernel = r.value])
        /\ UNCHANGED <<variant, host, uptime, fs, pc, todo, awaiting, execCount,
                       out, spawned, fmt>>

\* displaySystemInfo goes on after an await: it calls the next routine
\* (getMemoryInfo is synchronous), or prints the rows and the footer and
\* returns.  An awaited promise that rejected would make it throw: the shell
\* variants' main().catch prints the error and exits, a launcher dies of
\* the unhandled rejection.
displaySystemInfo ==
    /\ pc = "metrics"
    /\ IF awaiting \cap rejected # {}
       THEN /\ pc' = "crashed"
            /\ out' = IF variant \in Shells THEN out \o <<Log("Fatal error")>> ELSE out
            /\ UNCHANGED <<todo, awaiting, inflight, settled, results, execCount>>
       ELSE /\ AwaitReady(awaiting, settled)
            /\ LET mem == todo # <<>> /\ Head(todo) = "memory"
                   rest == IF mem THEN Tail(todo) ELSE todo
                   res == IF mem THEN [results EXCEPT !.memory = getMemoryInfo(variant)]
                          ELSE results
               IN  /\ results' = res
                   /\ settled' = IF mem THEN settled \cup {"memory"} ELSE settled
                   /\ IF rest = <<>>
                      THEN /\ out' = out \o Rows(variant, res, host,
                                                 formatUptime(variant, uptime)) \o Footer
                           /\ pc' = "displayed"
                           /\ todo' = <<>>
                           /\ awaiting' = {}
                           /\ UNCHANGED <<inflight, execCount>>
                      ELSE /\ todo' = Tail(rest)
                           /\ awaiting' = {Head(rest)}
                           /\ Exec({Cmd(variant, Head(rest))})
                           /\ UNCHANGED <<pc, out>>
    /\ UNCHANGED <<variant, host, uptime, fs, rejected, failed, spawned, fmt>>

-----------------------------------------------------------------------------
(* After the banner: the shell, or the dependencies and the application.   *)

\* spawn(cmd, [arg, ...], { stdio: 'inherit' })
Child(cmd, arg) == [cmd |-> cmd, arg |-> arg]

\* Mutant: main does not await displaySystemInfo().
displaySystemInfoNotAwaited == pc \in {"metrics", "displayed"}

\* main goes on after await displaySystemInfo().
displaySystemInfoReturned == pc = "displayed"

\* startBash (shell variants): spawn('bash', ['-c', ...]).
startBash ==
    /\ displaySystemInfoReturned
    /\ variant \in Shells
    /\ spawned' = Append(spawned, Child("bash", File("-c", "")))
    /\ pc' = "done"
    /\ UNCHANGED <<variant, host, uptime, fs, todo, awaiting, inflight, settled,
                   rejected, results, execCount, failed, out, fmt>>

\* fs.existsSync('/home/container/package.json')
hasPackage(f) == f.package # "absent"

\* Mutant: ensureNodeModules without the existsSync(node_modules) test.
ensureNodeModulesAlwaysInstalls(v, f) == v = "run_first" => hasPackage(f)

\* Does ensureNodeModules run npm install?  The first launcher returns early
\* without a package.json; both install when node_modules is missing.
ensureNodeModulesInstalls(v, f) ==
    /\ v = "run_first" => hasPackage(f)
    /\ ~f.node_modules

\* ensureNodeModules, up to its await of npm install or to its return.
ensureNodeModules ==
    /\ displaySystemInfoReturned
    /\ variant \in Launchers
    /\ IF ensureNodeModulesInstalls(variant, fs)
       THEN /\ out' = out \o <<Log("node_modules not found, running npm install")>>
            /\ Exec({"npm install"})
            /\ pc' = "install"
       ELSE /\ out' = out \o <<Log(IF variant = "run_first" /\ ~hasPackage(fs)
                                   THEN "package.json not found, skipping install"
                                   ELSE "node_modules found")>>
            /\ pc' = "ensured"
            /\ UNCHANGED <<inflight, execCount>>
    /\ UNCHANGED <<variant, host, uptime, fs, todo, awaiting, settled, rejected,
                   results, failed, spawned, fmt>>

\* Mutant: the first launcher retries as well.
ensureNodeModulesEveryoneRetries(v) == TRUE

\* Does ensureNodeModules run npm install again after a failure?  Only the
\* second launcher does ('rm -rf node_modules && npm install ...').
ensureNodeModulesRetries(v) == v = "run_second"

\* npm install ends.  A failed install may leave a node_modules behind.
npmInstallDone ==
    /\ pc = "install"
    /\ \E ok \in BOOLEAN, left \in BOOLEAN :
        /\ Ended("npm install", ok)
        /\ fs' = [fs EXCEPT !.node_modules = IF ok THEN TRUE ELSE left]
        /\ IF ok
           THEN /\ out' = out \o <<Log("npm install completed")>>
                /\ pc' = "ensured"
                /\ inflight' = inflight \ {"npm install"}
                /\ UNCHANGED execCount
           ELSE IF ensureNodeModulesRetries(variant)
           THEN /\ out' = out \o <<Log("npm install failed"), Log("Trying to reinstall")>>
                /\ pc' = "reinstall"
                /\ inflight' = inflight
                /\ execCount' = [execCount EXCEPT !["npm install"] = @ + 1]
           ELSE /\ out' = out \o <<Log("npm install failed")>>
                /\ pc' = "ensured"
                /\ inflight' = inflight \ {"npm install"}
                /\ UNCHANGED execCount
    /\ UNCHANGED <<variant, host, uptime, todo, awaiting, settled, rejected,
                   results, spawned, fmt>>

\* 'rm -rf node_modules && npm install ...' ends (second launcher).
reinstallDone ==
    /\ pc = "reinstall"
    /\ \E ok \in BOOLEAN, left \in BOOLEAN :
        /\ Ended("npm install", ok)
        /\ fs' = [fs EXCEPT !.node_modules = IF ok THEN TRUE ELSE left]
        /\ out' = out \o <<Log(IF ok THEN "npm reinstall success" ELSE "Reinstall failed")>>
    /\ inflight' = inflight \ {"npm install"}
    /\ pc' = "ensured"
    /\ UNCHANGED <<variant, host, uptime, todo, awaiting, settled, rejected,
                   results, execCount, spawned, fmt>>

\* f.endsWith('.js')
endsWithJs(f) == f.ext = "js"
\* fs.existsSync('/home/container/index.js')
hasIndexJs(f) == \E i \in 1..Len(f.files) : f.files[i] = File("index", "js")
\* fs.readdirSync('/home/container').find(f => f.endsWith('.js')) || ''
NoFile == File("", "")
RECURSIVE find(_)
find(files) ==
    IF files = <<>> THEN NoFile
    ELSE IF endsWithJs(Head(files)) THEN Head(files) ELSE find(Tail(files))
\* Mutant: index.js gets no preference over the other .js entries.
defaultFileNoIndex(f) == find(f.files)
defaultFile(f) == IF hasIndexJs(f) THEN File("index", "js") ELSE find(f.files)

\* Mutant: without a start script the first launcher only warns.
startAppForgetsNodeDot(v, f) ==
    IF v = "run_first" /\ f.package = "nostart"
    THEN [threw |-> FALSE, log |-> <<Log("no start script")>>, children |-> <<>>]
    ELSE [threw |-> FALSE, log |-> <<Log("Starting application with npm start")>>,
          children |-> <<Child("npm", File("start", ""))>>]

\* What startApp spawns: the children, the lines printed, and whether it
\* throws (JSON.parse of a package.json that holds no object).
startAppResult(v, f) ==
    CASE v = "run_second" ->
            [threw |-> FALSE, log |-> <<Log("Starting application with npm start")>>,
             children |-> <<Child("npm", File("start", ""))>>]
      [] v = "run_first" /\ ~hasPackage(f) /\ defaultFile(f) # NoFile ->
            [threw |-> FALSE, log |-> <<Log("running default file")>>,
             children |-> <<Child("node", defaultFile(f))>>]
      [] v = "run_first" /\ ~hasPackage(f) /\ defaultFile(f) = NoFile ->
            [threw |-> FALSE, log |-> <<Log("no .js file to run")>>, children |-> <<>>]
      [] v = "run_first" /\ f.package = "invalid" ->
            [threw |-> TRUE, log |-> <<>>, children |-> <<>>]
      [] v = "run_first" /\ f.package = "nostart" ->
            [threw |-> FALSE, log |-> <<Log("no start script, running node .")>>,
             children |-> <<Child("node", File(".", ""))>>]
      [] v = "run_first" /\ f.package = "start" ->
            [threw |-> FALSE, log |-> <<Log("running npm start")>>,
             children |-> <<Child("npm", File("start", ""))>>]

\* main goes on after await ensureNodeModules(): startApp.
startApp ==
    /\ pc = "ensured"
    /\ LET r == startAppResult(variant, fs)
       IN  /\ out' = out \o r.log
           /\ spawned' = spawned \o r.children
           /\ pc' = IF r.threw THEN "crashed" ELSE "done"
    /\ UNCHANGED <<variant, host, uptime, fs, todo, awaiting, inflight, settled,
                   rejected, results, execCount, failed, fmt>>

Next ==
    \/ mainStart
    \/ curlDone
    \/ vmstatDone
    \/ topDone
    \/ freeDone
    \/ dfDone
    \/ cpuinfoDone
    \/ unameDone
    \/ displaySystemInfo
    \/ startBash
    \/ ensureNodeModules
    \/ npmInstallDone
    \/ reinstallDone
    \/ startApp

Spec == Init /\ [][Next]_vars

\* Every shell command ends and every continuation runs: node's event loop
\* runs each callback whose command has ended.
FairSpec == Spec /\ WF_vars(Next)

-----------------------------------------------------------------------------
(* formatBytes and formatUptime called directly, on sampled arguments.     *)

Mantissas == {1, 512, 1023, 1024, 1536, 1048575}
ByteInputs ==
    {Zero, NaN, Undefined} \cup {Num(m, e) : m \in Mantissas, e \in 0..MaxExp}

\* d days, h hours, mi minutes, sec seconds and a fraction, in 1/Den seconds.
SecondInputs ==
    { (d * 86400 + h * 3600 + mi * 60 + sec) * Den + f :
        d \in 0..MaxDays, h \in {0, 1, 2, 23}, mi \in {0, 1, 2, 59},
        sec \in {0, 59}, f \in 0..(Den - 1) }

InitFmt ==
    /\ variant \in Variants
    /\ host \in {[cpus |-> <<>>, loadavg |-> 0]}
    /\ uptime = 0
    /\ fs \in FileSystemsOf("part_000")
    /\ pc = "fmt"
    /\ todo = <<>>
    /\ awaiting = {}
    /\ inflight = {}
    /\ settled = {}
    /\ rejected = {}
    /\ results = Unset
    /\ execCount = [c \in Commands |-> 0]
    /\ failed = {}
    /\ out = <<>>
    /\ spawned = <<>>
    /\ \/ \E b \in ByteInputs : fmt = [FmtIdle EXCEPT !.fn = "formatBytes", !.bytes = b]
       \/ \E n \in SecondInputs : fmt = [FmtIdle EXCEPT !.fn = "formatUptime", !.secs = n]

formatBytesCall ==
    /\ pc = "fmt"
    /\ fmt.fn = "formatBytes"
    /\ ~fmt.called
    /\ fmt' = [fmt EXCEPT !.called = TRUE, !.size = formatBytes(variant, fmt.bytes)]
    /\ UNCHANGED <<variant, host, uptime, fs, pc, todo, awaiting, inflight, settled,
                   rejected, results, execCount, failed, out, spawned>>

formatUptimeCall ==
    /\ pc = "fmt"
    /\ fmt.fn = "formatUptime"
    /\ ~fmt.called
    /\ fmt' = [fmt EXCEPT !.called = TRUE, !.parts = formatUptime(variant, fmt.secs)]
    /\ UNCHANGED <<variant, host, uptime, fs, pc, todo, awaiting, inflight, settled,
                   rejected, results, execCount, failed, out, spawned>>

NextFmt == formatBytesCall \/ formatUptimeCall

SpecFmt == InitFmt /\ [][NextFmt]_vars

-----------------------------------------------------------------------------
(* getSwapInfo called directly, on sampled outputs of free.                *)

\* The fields free can print: nothing, text, 0, 2G and a count of 1024^5 or
\* more.
SwapTokens == {EmptyTok, TextTok, NumTok(0, 0), NumTok(2, 3), NumTok(1, MaxExp)}
FreeInputs ==
    { [ok |-> FALSE, parts |-> <<EmptyTok>>] }
    \cup { [ok |-> TRUE, parts |-> <<a>>] : a \in SwapTokens }
    \cup { [ok |-> TRUE, parts |-> <<a, b>>] : a \in SwapTokens, b \in SwapTokens }
    \cup { [ok |-> TRUE, parts |-> <<a, b, c>>] :
             a \in SwapTokens, b \in SwapTokens, c \in SwapTokens }

InitSwap ==
    /\ variant \in Variants \ {"run_first"}
    /\ host \in {[cpus |-> <<>>, loadavg |-> 0]}
    /\ uptime = 0
    /\ fs \in FileSystemsOf("part_000")
    /\ pc = "fmt"
    /\ todo = <<>>
    /\ awaiting = {}
    /\ inflight = {}
    /\ settled = {}
    /\ rejected = {}
    /\ results = Unset
    /\ execCount = [c \in Commands |-> 0]
    /\ failed = {}
    /\ out = <<>>
    /\ spawned = <<>>
    /\ \E o \in FreeInputs : fmt = [FmtIdle EXCEPT !.fn = "getSwapInfo", !.free = o]

getSwapInfoCall ==
    /\ pc = "fmt"
    /\ fmt.fn = "getSwapInfo"
    /\ ~fmt.called
    /\ fmt' = [fmt EXCEPT !.called = TRUE, !.swap = getSwapInfo(variant, fmt.free).value]
    /\ UNCHANGED <<variant, host, uptime, fs, pc, todo, awaiting, inflight, settled,
                   rejected, results, execCount, failed, out, spawned>>

NextSwap == getSwapInfoCall

SpecSwap == InitSwap /\ [][NextSwap]_vars

-----------------------------------------------------------------------------
(* Properties.                                                             *)

Range(f) == {f[i] : i \in DOMAIN f}
Labels(rows) == [i \in 1..Len(rows) |-> rows[i].label]
Finished == pc \in {"done", "crashed"}

\* The whole banner (title, every metric row of the variant, footer) is the
\* beginning of what has been printed.
BannerLabels(v) == Labels(Header(v) \o Rows(v, Unset, host, <<>>) \o Footer)
BannerPrinted ==
    /\ Len(out) >= Len(BannerLabels(variant))
    /\ Labels(SubSeq(out, 1, Len(BannerLabels(variant)))) = BannerLabels(variant)

\* C1: in every variant, whenever a child process has been spawned (the
\* shell, the application, or npm install before it), the title, every
\* metric row and the 'System Ready' footer have already been printed.
C1_SpawnAfterBanner ==
    (spawned # <<>> \/ execCount["npm install"] > 0) => BannerPrinted

C1_Witness ==
    /\ variant = "part_000"
    /\ pc = "done"
    /\ Len(spawned) = 1
    /\ spawned[1].cmd = "bash"
    /\ BannerPrinted

\* C2, as claimed: in both launchers npm install runs if and only if
\* node_modules does not exist when ensureNodeModules runs, and the
\* application is spawned only after ensureNodeModules has settled.
\* (node_modules changes only when an install ends, so while no install has
\* been started fs.node_modules is what ensureNodeModules saw.)
C2_InstallIffMissing ==
    variant \in Launchers =>
        /\ pc \in {"init", "metrics", "displayed"} => execCount["npm install"] = 0
        /\ pc = "install" => ~fs.node_modules
        /\ (pc \in {"ensured", "done"} /\ execCount["npm install"] = 0)
              => fs.node_modules
        /\ spawned # <<>> => (pc = "done" /\ "npm install" \notin inflight)

\* C2, amended: the first launcher installs only if package.json exists as
\* well; without it, it skips the installation.
C2_InstallIffMissingAndPackage ==
    variant \in Launchers =>
        /\ pc \in {"init", "metrics", "displayed"} => execCount["npm install"] = 0
        /\ pc = "install" =>
              (~fs.node_modules /\ (variant = "run_first" => fs.package # "absent"))
        /\ (pc \in {"ensured", "done"} /\ execCount["npm install"] = 0)
              => (fs.node_modules \/ (variant = "run_first" /\ fs.package = "absent"))
        /\ spawned # <<>> => (pc = "done" /\ "npm install" \notin inflight)

C2_Witness ==
    /\ variant = "run_first"
    /\ pc = "done"
    /\ execCount["npm install"] = 1
    /\ "npm install" \notin failed
    /\ Len(spawned) = 1

\* There is a file the first launcher can run without a package.json.
HasJsFile == \E i \in 1..Len(fs.files) : fs.files[i].ext = "js"
\* The first launcher has nothing to launch, or cannot read package.json.
NothingToLaunch ==
    /\ variant = "run_first"
    /\ \/ fs.package = "absent" /\ ~HasJsFile
       \/ fs.package = "invalid"

\* C3, as claimed: every run that has finished its launch step has spawned
\* exactly one child process.
C3_ExactlyOneChild == Finished => Len(spawned) = 1

\* C3, amended: every run finishes its launch step, never with more than one
\* child, and with exactly one unless the first launcher finds no
\* package.json and no .js file, or a package.json it cannot parse.
C3_OneChildUnlessNothingToLaunch ==
    /\ <>Finished
    /\ [](Len(spawned) <= 1)
    /\ [](Finished => Len(spawned) = IF NothingToLaunch THEN 0 ELSE 1)

C3_Witness ==
    /\ pc = "done"
    /\ variant = "run_first"
    /\ fs.package = "absent"
    /\ ~HasJsFile
    /\ spawned = <<>>

\* The command(s) of routine m have failed.
CommandFailed(m) ==
    \/ Cmd(variant, m) \in failed
    \/ m = "cpu" /\ variant = "part_000" /\ "top" \in failed

\* C4, as claimed: no metric routine rejects, and one whose command failed
\* has returned a fixed constant made of 'N/A' or '0B'.
C4_FixedFallback ==
    /\ rejected = {}
    /\ ("ip" \in settled /\ CommandFailed("ip")) => results.ip = IPInfoFallback
    /\ ("cpu" \in settled /\ CommandFailed("cpu")) => results.cpu = UsageNA
    /\ ("swap" \in settled /\ CommandFailed("swap")) => results.swap \in {ZeroPair, NAPair}
    /\ ("disk" \in settled /\ CommandFailed("disk")) => results.disk \in {ZeroPair, NAPair}
    /\ ("model" \in settled /\ CommandFailed("model")) => results.model = "N/A"
    /\ ("kernel" \in settled /\ CommandFailed("kernel")) => results.kernel = "N/A"

\* C4, amended: no metric routine rejects; on failure getPublicIPInfo,
\* getSwapInfo, getDiskInfo and getKernelVersion return their constant;
\* getCPUUsage returns 'N/A' in the shell variants and the load average per
\* CPU in the launchers; getCPUModel returns the model os.cpus() reports and
\* 'N/A' only when there is none.
C4_FallbackOrHostValue ==
    /\ rejected = {}
    /\ ("ip" \in settled /\ CommandFailed("ip")) => results.ip = IPInfoFallback
    /\ ("cpu" \in settled /\ CommandFailed("cpu")) =>
          IF variant \in Shells THEN results.cpu = UsageNA
          ELSE IF Len(host.cpus) = 0 THEN results.cpu.kind \in {"NaN", "Infinity"}
          ELSE results.cpu = Usage(((host.loadavg * 100) \div Len(host.cpus) + 5) \div 10)
    /\ ("swap" \in settled /\ CommandFailed("swap")) =>
          results.swap = IF variant = "part_001" THEN NAPair ELSE ZeroPair
    /\ ("disk" \in settled /\ CommandFailed("disk")) => results.disk = NAPair
    /\ ("model" \in settled /\ CommandFailed("model")) =>
          results.model = IF Len(host.cpus) = 0 THEN "N/A" ELSE host.cpus[1]
    /\ ("kernel" \in settled /\ CommandFailed("kernel")) => results.kernel = "N/A"

C4_Witness ==
    /\ variant = "run_second"
    /\ Len(host.cpus) > 0
    /\ {"curl", "top", "free", "df", "cpuinfo", "uname"} \subseteq failed
    /\ settled = Metrics
    /\ results.model = "EPYC"
    /\ results.cpu.kind = "num"

\* C5, as claimed: no command is started more than once in a run.
C5_NoCommandTwice == \A c \in Commands : execCount[c] <= 1

\* C5, amended: no metric command is started more than once; the first
\* launcher starts npm install at most once; the second launcher starts it
\* a second time only after the first execution has failed, and never a
\* third time.
C5_OnlySecondLauncherRetriesOnce ==
    /\ \A c \in Commands \ {"npm install"} : execCount[c] <= 1
    /\ variant # "run_second" => execCount["npm install"] <= 1
    /\ execCount["npm install"] <= 2
    /\ execCount["npm install"] = 2 =>
          ("npm install" \in failed /\ pc \in {"reinstall", "ensured", "done"})

C5_Witness ==
    /\ variant = "run_second"
    /\ execCount["npm install"] = 2
    /\ pc = "done"
    /\ Len(spawned) = 1

\* The rows of the second launcher's banner, in print order.
SecondLauncherLabels ==
    <<"ISP", "IPv4", "Country", "Region", "OS", "Uptime", "NodeJS version",
      "Memory", "Swap", "Disk", "CPUs", "Processor", "Arch", "Kernel",
      "CPU Usage", "Current Time">>
RowValue(label) ==
    LET i == CHOOSE j \in 1..Len(out) : out[j].label = label IN out[i].value
RowPrinted == \E i \in 1..Len(out) : out[i].label \in Range(SecondLauncherLabels)

\* C6: in the second launcher no row is printed before all seven routines
\* have settled; the rows come in the fixed order ISP ... Current Time; and
\* each row shows what its own routine resolved to, which is the fallback
\* exactly when its own command failed, whatever the order of completion.
C6_BannerIndependentOfOrder ==
    (variant = "run_second" /\ RowPrinted) =>
        /\ settled = Metrics
        /\ inflight \cap {"curl", "top", "free", "df", "cpuinfo", "uname"} = {}
        /\ Labels(SubSeq(out, 3, 18)) = SecondLauncherLabels
        /\ RowValue("ISP") = results.ip.isp
        /\ RowValue("IPv4") = results.ip.ip
        /\ RowValue("Country") = results.ip.country
        /\ RowValue("Region") = results.ip.region
        /\ RowValue("Memory") = Pair(results.memory.total, results.memory.used)
        /\ RowValue("Swap") = results.swap
        /\ RowValue("Disk") = results.disk
        /\ RowValue("Processor") = results.model
        /\ RowValue("Kernel") = results.kernel
        /\ RowValue("CPU Usage") = results.cpu
        /\ "curl" \in failed => RowValue("ISP") = "N/A"
        /\ RowValue("Disk") = NAPair <=> "df" \in failed
        /\ RowValue("Kernel") = "N/A" <=> "uname" \in failed
        /\ RowValue("Kernel") \in {"N/A", "6.1.0"}
        /\ RowValue("Processor") = "Xeon" => "cpuinfo" \notin failed
        /\ RowValue("CPU Usage").kind \in {"num", "NaN", "Infinity"}
        /\ RowValue("Memory").total.kind = "size"

C6_Witness ==
    /\ variant = "run_second"
    /\ pc = "displayed"
    /\ failed = {"df", "uname"}
    /\ RowValue("Disk") = NAPair
    /\ RowValue("Kernel") = "N/A"
    /\ RowValue("Processor") = "Xeon"
    /\ RowValue("ISP") = "AS64500 ExampleNet"

-----------------------------------------------------------------------------
(* Properties of formatUptime and formatBytes (under SpecFmt).             *)

UptimeCalled == fmt.called /\ fmt.fn = "formatUptime"
BytesCalled == fmt.called /\ fmt.fn = "formatBytes"

\* The count the output gives for a unit: 0 when the unit is absent.
Count(parts, unit) ==
    IF \E i \in 1..Len(parts) : parts[i].unit = unit
    THEN parts[CHOOSE i \in 1..Len(parts) : parts[i].unit = unit].n
    ELSE 0

\* C8: the days d, hours h and minutes m that formatUptime reports for s
\* seconds satisfy h < 24, m < 60 and
\* d*86400 + h*3600 + m*60 <= s < d*86400 + h*3600 + m*60 + 60.
C8_UptimeDecomposes ==
    UptimeCalled =>
        LET d == Count(fmt.parts, "day")
            h == Count(fmt.parts, "hour")
            m == Count(fmt.parts, "minute")
            low == (d * 86400 + h * 3600 + m * 60) * Den
        IN  /\ d >= 0 /\ h >= 0 /\ m >= 0
            /\ h < 24
            /\ m < 60
            /\ low <= fmt.secs
            /\ fmt.secs < low + 60 * Den

C8_Witness ==
    /\ UptimeCalled
    /\ variant = "part_001"
    /\ fmt.secs % Den # 0
    /\ Count(fmt.parts, "day") = 2
    /\ Count(fmt.parts, "hour") = 23
    /\ Count(fmt.parts, "minute") = 59

UnitOrder(unit) == CASE unit = "day" -> 1 [] unit = "hour" -> 2 [] unit = "minute" -> 3

\* C9: the output is '0 minutes' exactly when s < 60; otherwise it lists
\* the non-zero components among days, hours and minutes, each once, in that
\* order, and a unit takes its 's' exactly when its count exceeds 1.
C9_UptimeShape ==
    UptimeCalled =>
        LET whole == fmt.secs \div (60 * Den)       \* whole minutes of s
            d == whole \div 1440
            h == (whole % 1440) \div 60
            m == whole % 60
            p == fmt.parts
        IN  /\ (p = ZeroMinutes) <=> (fmt.secs < 60 * Den)
            /\ fmt.secs >= 60 * Den =>
                  /\ Len(p) = Cardinality({u \in {"day", "hour", "minute"} :
                                             Count(<<Part(d, "day"), Part(h, "hour"),
                                                     Part(m, "minute")>>, u) > 0})
                  /\ \A i \in 1..Len(p) :
                        /\ p[i].unit \in {"day", "hour", "minute"}
                        /\ p[i].n > 0
                        /\ p[i].n = (CASE p[i].unit = "day" -> d
                                       [] p[i].unit = "hour" -> h
                                       [] p[i].unit = "minute" -> m)
                        /\ p[i].plural <=> (p[i].n > 1)
                  /\ \A i, j \in 1..Len(p) :
                        i < j => UnitOrder(p[i].unit) < UnitOrder(p[j].unit)

C9_Witness ==
    /\ UptimeCalled
    /\ Len(fmt.parts) = 3
    /\ fmt.parts[1] = [n |-> 1, unit |-> "day", plural |-> FALSE]
    /\ fmt.parts[2] = [n |-> 2, unit |-> "hour", plural |-> TRUE]
    /\ fmt.parts[3] = [n |-> 1, unit |-> "minute", plural |-> FALSE]

\* 1024^i <= m * 1024^e, for m < 1024^3.
PowLeq(i, b) ==
    IF i <= b.e THEN TRUE
    ELSE IF i - b.e > 2 THEN FALSE
    ELSE Pow(k, i - b.e) <= b.m

\* C10, as claimed: for every positive integer byte count the result is a
\* number followed by one unit from B, K, M, G, T, the unit of the largest
\* index i with 1024^i <= bytes.
C10_WellFormedSize ==
    (BytesCalled /\ fmt.bytes.t = "num" /\ fmt.bytes.m > 0) =>
        /\ fmt.size.kind = "size"
        /\ fmt.size.unit \in {"B", "K", "M", "G", "T"}
        /\ \A i \in 1..Len(sizes) :
              (PowLeq(i - 1, fmt.bytes) /\ (i = Len(sizes) \/ ~PowLeq(i, fmt.bytes)))
                  => fmt.size.unit = sizes[i]

-----------------------------------------------------------------------------
(* Properties of getSwapInfo (under SpecSwap).                             *)

SwapCalled == fmt.called /\ fmt.fn = "getSwapInfo"
\* The field is 0 or not a number (Number('') is 0).
ZeroOrNotANumber(tok) == tok.t \in {"empty", "text"} \/ (tok.t = "num" /\ tok.m = 0)

\* C11, as claimed: in part_000 getSwapInfo never shows NaN: total and used
\* are well-formed byte strings for every output of free; both are '0B'
\* when the command fails or prints fewer than two fields, and a field that
\* is 0 or not a number is shown as '0B'.
C11_SwapNeverNaN ==
    (SwapCalled /\ variant = "part_000") =>
        LET o == fmt.free
            r == fmt.swap
        IN  /\ r.total.kind = "size" /\ r.total.unit \in Range(sizes)
            /\ r.used.kind = "size" /\ r.used.unit \in Range(sizes)
            /\ (~o.ok \/ Len(o.parts) < 2) => r = ZeroPair
            /\ (o.ok /\ Len(o.parts) >= 2 /\ ZeroOrNotANumber(o.parts[1]))
                  => r.total = Size(0, "B")
            /\ (o.ok /\ Len(o.parts) >= 2 /\ ZeroOrNotANumber(o.parts[2]))
                  => r.used = Size(0, "B")

-----------------------------------------------------------------------------
(* Properties of getCPUUsage in part_000 (under Spec).                     *)

\* C12, as claimed: in part_000 getCPUUsage returns 'N/A' or a one-decimal
\* number between 0 and 100 inclusive, and never 'NaN', for every output and
\* failure of vmstat and of the fallback top.
C12_UsageInRange ==
    (variant = "part_000" /\ "cpu" \in settled) =>
        /\ results.cpu.kind \in {"N/A", "num"}
        /\ results.cpu.kind = "num" =>
              (results.cpu.tenths >= 0 /\ results.cpu.tenths <= 1000)

-----------------------------------------------------------------------------
(* The launch decision of the first launcher's startApp (under Spec).      *)

\* The first directory entry ending in .js is entry i.
FirstJsAt(i) ==
    /\ i \in 1..Len(fs.files)
    /\ fs.files[i].ext = "js"
    /\ \A j \in 1..(i - 1) : fs.files[j].ext # "js"
HasIndexJs == \E i \in 1..Len(fs.files) : fs.files[i] = File("index", "js")
LastPrinted == out[Len(out)]

\* What startApp does without a package.json: node index.js if it exists,
\* else node on the first entry ending in .js, else an error and no child.
LaunchWithoutPackage ==
    /\ HasIndexJs => spawned = <<Child("node", File("index", "js"))>>
    /\ (~HasIndexJs /\ HasJsFile) =>
          \E i \in 1..Len(fs.files) :
              FirstJsAt(i) /\ spawned = <<Child("node", fs.files[i])>>
    /\ ~HasJsFile => (spawned = <<>> /\ LastPrinted = Log("no .js file to run"))

\* C13, as claimed: the first launcher's startApp, for every state of the
\* container directory: without a package.json it spawns node index.js if
\* index.js exists, else node on the first entry ending in .js, else nothing
\* and prints an error; with a package.json it spawns npm start if
\* scripts.start is set and node . otherwise; never more than one child.
C13_LaunchDecision ==
    (variant = "run_first") =>
        /\ Len(spawned) <= 1
        /\ Finished =>
              /\ fs.package = "absent" => LaunchWithoutPackage
              /\ fs.package = "start" => spawned = <<Child("npm", File("start", ""))>>
              /\ fs.package \notin {"absent", "start"} =>
                    spawned = <<Child("node", File(".", ""))>>

\* C13, amended: as claimed when package.json is absent or parses to an
\* object (npm start with scripts.start, node . without); with a
\* package.json that does not parse to an object startApp throws and no
\* child is spawned; never more than one child.
C13_LaunchDecisionParsed ==
    (variant = "run_first") =>
        /\ Len(spawned) <= 1
        /\ Finished =>
              /\ fs.package = "absent" => LaunchWithoutPackage
              /\ fs.package = "start" => spawned = <<Child("npm", File("start", ""))>>
              /\ fs.package = "nostart" => spawned = <<Child("node", File(".", ""))>>
              /\ fs.package = "invalid" => (spawned = <<>> /\ pc = "crashed")

\* startApp has run in a directory without package.json whose index.js is
\* not the first .js entry, and has launched index.js.
C13_Witness ==
    /\ variant = "run_first"
    /\ pc = "done"
    /\ fs.package = "absent"
    /\ fs.files = <<File("data", "json"), File("main", "js"), File("index", "js")>>
    /\ spawned = <<Child("node", File("index", "js"))>>

====
